---- MODULE Spec2Model ----
(***************************************************************************)
(* A model of spatialDSSAT's run controller, class GSRun of                *)
(* src/spatialDSSAT/run.py: the treatment registry (add_treatment), the    *)
(* experiment serializer (run and its _*_build methods) and clear.         *)
(*                                                                         *)
(* Python objects are modelled by value.  A scalar is a record             *)
(* [t, n, s]: its type, its number (an int, or a datetime as               *)
(* year * 1000 + day of the year) and its text (a str).  A dict is the     *)
(* sequence of its items in insertion order.  Text that the code builds    *)
(* with str.format and strftime is built here as TLA+ strings.             *)
(***************************************************************************)
EXTENDS Integers, Sequences, FiniteSets, TLC

VARIABLES
    crop_name,      \* self._crop_name
    run_path,       \* whether the directory self.RUN_PATH exists
    staged,         \* the files run() has written into self.RUN_PATH
    weather,        \* self.weather
    soil,           \* self.soil
    soil_profile,   \* self.soil_profile
    field,          \* self.field
    planting,       \* self.planting
    nitrogen,       \* self.nitrogen
    cultivar,       \* self.cultivar
    treatments,     \* self.treatments
    start_date,     \* self.start_date
    sol_str,        \* self.sol_str
    gsx_str,        \* self.gsx_str, one field per section
    batch_str,      \* self.batch_str
    result,         \* the last call: its name, its arguments, how it ended
    calls,          \* the arguments of the successful add_treatment calls
    overridden,     \* whether run(start_date=...) has replaced start_date
    home,           \* the links in DSSAT_HOME
    tmp,            \* the run directories that exist in TMP
    tmp_files,      \* the files in them: directory, name, the worker who wrote it
    workers         \* the workers of a parallel sweep, each with its registry

tables == <<weather, soil, soil_profile, field, planting, nitrogen, cultivar>>
buffers == <<sol_str, gsx_str, batch_str>>
registry == <<crop_name, run_path, staged, weather, soil, soil_profile, field,
              planting, nitrogen, cultivar, treatments, start_date, sol_str,
              gsx_str, batch_str, result, calls, overridden>>
shared == <<home, tmp, tmp_files, workers>>
vars == <<registry, shared>>

(***************************************************************************)
(* Python values                                                           *)
(***************************************************************************)
None == "<None>"

PyInt(n) == [t |-> "int", n |-> n, s |-> ""]
PyStr(s) == [t |-> "str", n |-> 0, s |-> s]
\* datetime(year, 1, 1) + timedelta(days = yday - 1)
PyDatetime(year, yday) == [t |-> "datetime", n |-> year * 1000 + yday, s |-> ""]
\* date(year, 1, 1) + timedelta(days = yday - 1): a date that is no datetime
PyDate(year, yday) == [t |-> "date", n |-> year * 1000 + yday, s |-> ""]
\* a planting argument that is a scalar, and one that is a dict
Scalar(v) == [t |-> v.t, v |-> v, items |-> <<>>]
Dict(items) == [t |-> "dict", v |-> PyInt(0), items |-> items]
Item(k, v) == [k |-> k, v |-> v]

Keys(d) == {d.items[i].k : i \in 1..Len(d.items)}
\* d[key], for key in d
Get(d, key) == d.items[CHOOSE i \in 1..Len(d.items) : d.items[i].k = key].v
\* d[key] = v: the value of an existing key is replaced in place, a new key
\* goes last
SetItem(d, key, v) ==
    IF key \in Keys(d)
    THEN Dict([i \in 1..Len(d.items) |->
                  IF d.items[i].k = key THEN Item(key, v) ELSE d.items[i]])
    ELSE Dict(Append(d.items, Item(key, v)))

isinstance(x, types) == x.t \in types

\* Python's ==: two dicts are equal when they hold the same keys with equal
\* values, whatever the insertion order; values of different types differ
PyEqKeyOrder(a, b) == a = b
PyEq(a, b) ==
    IF a.t = "dict" /\ b.t = "dict"
    THEN /\ Keys(a) = Keys(b)
         /\ \A k \in Keys(a) : Get(a, k) = Get(b, k)
    ELSE a = b

\* bool(x) of a soil_profile argument
TruthyAlways(x) == TRUE
Truthy(x) == x \notin {None, ""}

\* datetime.strftime("%y%j")
RJust0(s, w) == IF Len(s) >= w THEN s ELSE
                IF Len(s) + 1 >= w THEN "0" \o s ELSE "00" \o s
strftime_yj(d) ==
    PyStr(RJust0(ToString((d.n \div 1000) % 100), 2) \o RJust0(ToString(d.n % 1000), 3))

(***************************************************************************)
(* Lists: x in list, list.index(x) + 1                                     *)
(***************************************************************************)
In(x, list) == \E i \in 1..Len(list) : list[i] = x
\* list.index(x), without the + 1
IndexOfFromZero(list, x) ==
    (CHOOSE i \in 1..Len(list) :
        list[i] = x /\ \A j \in 1..(i - 1) : list[j] # x) - 1

IndexOf(list, x) == CHOOSE i \in 1..Len(list) :
                        /\ list[i] = x
                        /\ \A j \in 1..(i - 1) : list[j] # x
InPlanting(x, list) == \E i \in 1..Len(list) : PyEq(list[i], x)
IndexOfPlanting(list, x) == CHOOSE i \in 1..Len(list) :
                                /\ PyEq(list[i], x)
                                /\ \A j \in 1..(i - 1) : ~PyEq(list[j], x)

\* if x not in list: list.append(x)
InternNoDedup(list, x) == Append(list, x)
Intern(list, x) == IF In(x, list) THEN list ELSE Append(list, x)
InternPlanting(list, x) == IF InPlanting(x, list) THEN list ELSE Append(list, x)

\* min(a, b) of two datetimes
MinDate(a, b) == IF b.n < a.n THEN b ELSE a

(***************************************************************************)
(* __init__                                                                *)
(***************************************************************************)
\* datetime(9999, 9, 9)
NoStartDate == PyDatetime(9999, 252)
\* gsx_str = "": no header and no section
NoSections == [header |-> FALSE, treatments |-> <<>>, cultivars |-> <<>>,
               fields |-> <<>>, planting |-> <<>>, fertilizers |-> <<>>,
               options |-> <<>>]

\* the assignments of __init__ that every call makes
ResetFields ==
    /\ weather' = <<>>
    /\ soil' = <<>>
    /\ soil_profile' = <<>>
    /\ field' = <<>>
    /\ planting' = <<>>
    /\ nitrogen' = <<>>
    /\ cultivar' = <<>>
    /\ treatments' = <<>>
    /\ start_date' = NoStartDate
    /\ sol_str' = <<>>
    /\ gsx_str' = NoSections
    /\ batch_str' = <<>>

\* the crops of DSSATTools.crop.CROP_CODES the model constructs a run for
Crops == {"Maize", "Wheat"}

\* The files of DSSAT_STATIC that the module links into DSSAT_HOME when it
\* is imported, and the workers: each is a process that imports the module,
\* constructs a registry and uses it.  A worker begins before its import.
StaticFiles == {"Genotype", "StandardData"}
Workers == {1, 2}
NotStarted == [pc |-> "import", todo |-> StaticFiles, file |-> "", RUN_PATH |-> "",
               treatments |-> 0, read |-> {}, err |-> "ok"]

Init ==
    /\ crop_name \in Crops
    /\ run_path = TRUE
    /\ staged = {}
    /\ weather = <<>>
    /\ soil = <<>>
    /\ soil_profile = <<>>
    /\ field = <<>>
    /\ planting = <<>>
    /\ nitrogen = <<>>
    /\ cultivar = <<>>
    /\ treatments = <<>>
    /\ start_date = NoStartDate
    /\ sol_str = <<>>
    /\ gsx_str = NoSections
    /\ batch_str = <<>>
    /\ result = [op |-> "__init__", args |-> <<>>, err |-> "ok"]
    /\ calls = <<>>
    /\ overridden = FALSE
    /\ home = StaticFiles
    /\ tmp = {}
    /\ tmp_files = {}
    /\ workers = [w \in Workers |-> NotStarted]

(***************************************************************************)
(* add_treatment                                                           *)
(***************************************************************************)
MaxTreatments == 99

\* the planting date that add_treatment compares with start_date, or the
\* error the comparison raises
PlantingError(p) ==
    IF isinstance(p, {"datetime", "date"})
    THEN IF p.t = "datetime" THEN "ok" ELSE "TypeError"
    ELSE IF isinstance(p, {"dict"})
    THEN IF "PDATE" \notin Keys(p) THEN "AssertionError: PDATE"
         ELSE IF Get(p, "PDATE").t = "datetime" THEN "ok" ELSE "TypeError"
    ELSE "TypeError"
PlantingDateNoDict(p) == p.v
PlantingDate(p) == IF p.t = "dict" THEN Get(p, "PDATE") ELSE p.v

Args(w, n, p, c, s, sp) ==
    [weather |-> w, nitrogen |-> n, planting |-> p, cultivar |-> c,
     soil |-> s, soil_profile |-> sp]

\* the call add_treatment(a) and the exception it raised, "ok" for none
Raised(a, err) == [op |-> "add_treatment", args |-> <<a>>, err |-> err]

\* assert len(self.treatments) < 99
AtCapacityOffByOne(treats) == ~(Len(treats) <= MaxTreatments)
AtCapacity(treats) == ~(Len(treats) < MaxTreatments)

add_treatment(a) ==
    LET weather1 == Intern(weather, a.weather)
        weather_n == IndexOf(weather1, a.weather)
        useProfile == Truthy(a.soil_profile)
        soil_profile1 == IF useProfile THEN Intern(soil_profile, a.soil_profile)
                         ELSE soil_profile
        soil1 == IF useProfile THEN soil ELSE Intern(soil, a.soil)
        soil_n == IF useProfile THEN IndexOf(soil_profile1, a.soil_profile)
                  ELSE IndexOf(soil1, a.soil)
        field1 == Intern(field, <<weather_n, soil_n>>)
        field_n == IndexOf(field1, <<weather_n, soil_n>>)
        nitrogen1 == Intern(nitrogen, a.nitrogen)
        nitrogen_n == IndexOf(nitrogen1, a.nitrogen)
        cultivar1 == Intern(cultivar, a.cultivar)
        cultivar_n == IndexOf(cultivar1, a.cultivar)
        planting1 == InternPlanting(planting, a.planting)
        planting_n == IndexOfPlanting(planting1, a.planting)
        perr == PlantingError(a.planting)
    IN
    /\ UNCHANGED <<crop_name, run_path, staged, buffers, overridden, shared>>
    /\ IF AtCapacity(treatments)
       THEN /\ result' = Raised(a, "AssertionError: capacity")
            /\ UNCHANGED <<tables, treatments, start_date, calls>>
       ELSE IF ~useProfile /\ a.soil = None
       THEN /\ result' = Raised(a, "AssertionError: soil")
            /\ weather' = weather1
            /\ UNCHANGED <<soil, soil_profile, field, planting, nitrogen,
                           cultivar, treatments, start_date, calls>>
       ELSE /\ weather' = weather1
            /\ soil' = soil1
            /\ soil_profile' = soil_profile1
            /\ field' = field1
            /\ nitrogen' = nitrogen1
            /\ cultivar' = cultivar1
            /\ planting' = planting1
            /\ IF perr # "ok"
               THEN /\ result' = Raised(a, perr)
                    /\ UNCHANGED <<treatments, start_date, calls>>
               ELSE /\ start_date' = MinDate(start_date, PlantingDate(a.planting))
                    /\ treatments' = Append(treatments,
                           <<cultivar_n, field_n, planting_n, nitrogen_n>>)
                    /\ calls' = Append(calls, a)
                    /\ result' = Raised(a, "ok")

(***************************************************************************)
(* clear                                                                   *)
(***************************************************************************)
\* self.__init__(crop_name=self._crop_name): the object has treatments, so
\* the crop and the run directory are left as they are
clear ==
    /\ ResetFields
    /\ UNCHANGED <<crop_name, run_path, staged, shared>>
    /\ result' = [op |-> "clear", args |-> <<>>, err |-> "ok"]
    /\ calls' = <<>>
    /\ overridden' = FALSE

(***************************************************************************)
(* str.format                                                              *)
(***************************************************************************)
Spaces(k) == SubSeq("                    ", 1, k)
RJust(s, w) == IF Len(s) >= w THEN s ELSE Spaces(w - Len(s)) \o s
LJust(s, w) == IF Len(s) >= w THEN s ELSE s \o Spaces(w - Len(s))
\* "{:-2}".format(n)
Fmt2(n) == RJust(ToString(n), 2)
\* "{:02}".format(n) and "{:-02}".format(n)
Fmt02(n) == IF n >= 0 /\ n < 10 THEN "0" \o ToString(n) ELSE ToString(n)
\* "{:>5}".format(v), "{:>5d}".format(v), "{:>5.1f}".format(v) and
\* "{:>5.0f}".format(v) of a value; "ValueError" when the format code does
\* not fit the value's type
ValueError == "ValueError"
FmtS(v, w) == IF v.t = "str" THEN RJust(v.s, w) ELSE RJust(ToString(v.n), w)
FmtD(v, w) == IF v.t = "int" THEN RJust(ToString(v.n), w) ELSE ValueError
FmtF1(v, w) == IF v.t = "int" THEN RJust(ToString(v.n) \o ".0", w) ELSE ValueError
FmtF0(v, w) == IF v.t = "int" THEN RJust(ToString(v.n), w) ELSE ValueError
\* "{}".format(v)
Str(v) == IF v.t = "str" THEN v.s ELSE ToString(v.n)

\* WTH_IDS[n - 1]: "".join(i) for i in product(ascii_uppercase, ascii_uppercase)
ascii_uppercase == "ABCDEFGHIJKLMNOPQRSTUVWXYZ"
WTH_IDS(n) ==
    SubSeq(ascii_uppercase, ((n - 1) \div 26) + 1, ((n - 1) \div 26) + 1)
    \o SubSeq(ascii_uppercase, ((n - 1) % 26) + 1, ((n - 1) % 26) + 1)

\* DSSATTools.crop.CROP_CODES[crop_name]
CROP_CODES(crop) == IF crop = "Maize" THEN "MZ" ELSE "WH"

(***************************************************************************)
(* The sections of the experiment file.  A section is the sequence of its *)
(* data lines, and a data line the record of its formatted columns.        *)
(***************************************************************************)
\* _treatment_build: enumerate(self.treatments, 1)
TreatmentLine(n, treat) ==
    [n |-> Fmt2(n), tname |-> "SAMPLE " \o LJust(ToString(n), 18),
     cu |-> Fmt2(treat[1]), fl |-> Fmt2(treat[2]),
     mp |-> Fmt2(treat[3]), mf |-> Fmt2(treat[4])]
TreatmentSectionFromZero(treats) ==
    [k \in 1..Len(treats) |-> TreatmentLine(k - 1, treats[k])]
TreatmentSection(treats) == [k \in 1..Len(treats) |-> TreatmentLine(k, treats[k])]
BatchLine(n, crop) ==
    [filex |-> "EXPEFILE." \o CROP_CODES(crop) \o "X", trtno |-> Fmt2(n)]
BatchSection(treats, crop) == [k \in 1..Len(treats) |-> BatchLine(k, crop)]

\* _cultivar_build
CultivarSection(culs, crop) ==
    [k \in 1..Len(culs) |->
        [c |-> Fmt2(k), cr |-> RJust(CROP_CODES(crop), 2),
         ingeno |-> RJust(culs[k], 6), cname |-> LJust(culs[k], 8)]]

\* _field_build: weather[-8:-4] is the year and length part of the file name
FieldLine(n, f, wth) ==
    [l |-> Fmt2(n), id_field |-> "SEFL00" \o Fmt02(n),
     wsta |-> "SE" \o WTH_IDS(f[1])
              \o SubSeq(wth[f[1]], Len(wth[f[1]]) - 7, Len(wth[f[1]]) - 4),
     id_soil |-> "IB000000" \o Fmt02(f[2])]
FieldSection(fields, wth) == [k \in 1..Len(fields) |-> FieldLine(k, fields[k], wth)]

\* _fertilizer_build: one line for each application of each schedule
RECURSIVE Flatten(_)
Flatten(ss) == IF ss = <<>> THEN <<>> ELSE Head(ss) \o Flatten(Tail(ss))
FertilizerLine(nitrogen_n, app) ==
    [f |-> Fmt2(nitrogen_n), fdate |-> LJust(ToString(app[1]), 5),
     famn |-> RJust(ToString(app[2]) \o ".0", 5)]
FertilizerLinesFirstOnly(nitrogen_n, sched) ==
    IF sched = <<>> THEN <<>> ELSE <<FertilizerLine(nitrogen_n, sched[1])>>
FertilizerLines(nitrogen_n, sched) ==
    [j \in 1..Len(sched) |-> FertilizerLine(nitrogen_n, sched[j])]
FertilizerSection(nitro) ==
    Flatten([k \in 1..Len(nitro) |-> FertilizerLines(k, nitro[k])])

(***************************************************************************)
(* _planting_build                                                         *)
(***************************************************************************)
\* d.get(key, default)
DictGet(d, key, default) == IF key \in Keys(d) THEN Get(d, key) ELSE default

\* the keys of DEFAULT_PLANTING_OPTIONS, in their order
PlantingKeys == <<"PDATE", "EDATE", "PPOP", "PPOE", "PLME", "PLDS", "PLRS",
                  "PLRD", "PLDP", "PLWT", "PAGE", "PENV", "PLPH", "SPRL">>
DEFAULT_PLANTING_OPTIONS(key) ==
    CASE key \in {"PDATE", "EDATE", "PLWT", "PAGE", "PENV", "PLPH", "SPRL"} -> PyInt(-99)
      [] key \in {"PPOP", "PPOE", "PLDP"} -> PyInt(4)
      [] key = "PLME" -> PyStr("S")
      [] key = "PLDS" -> PyStr("R")
      [] key = "PLRS" -> PyInt(90)
      [] key = "PLRD" -> PyInt(0)
\* the format code of each column of a planting line
FmtPlanting(key, v) ==
    CASE key \in {"PDATE", "EDATE", "PLME", "PLDS"} -> FmtS(v, 5)
      [] key \in {"PPOP", "PPOE"} -> FmtF1(v, 5)
      [] OTHER -> FmtF0(v, 5)

\* One pass of the loop body over the entry p, numbered n: the entry as the
\* pass leaves it in self.planting, the line it appends (if it gets there)
\* and the error it raises.  A datetime or date is wrapped in a new dict; a
\* dict is the caller's own object, and its PDATE and EDATE are overwritten
\* by their text.
PlantingPass(n, p) ==
    LET d0 == IF isinstance(p, {"datetime", "date"})
              THEN Dict(<<Item("PDATE", p.v)>>) ELSE p
        d1 == SetItem(d0, "PDATE", strftime_yj(Get(d0, "PDATE")))
        hasE == "EDATE" \in Keys(d1) /\ Get(d1, "EDATE") # PyInt(-99)
        d2 == IF hasE THEN SetItem(d1, "EDATE", strftime_yj(Get(d1, "EDATE")))
              ELSE d1
        \* what the pass leaves in the list: a dict entry is the object the
        \* pass writes to
        kept(d) == IF p.t = "dict" THEN d ELSE p
        cols == [key \in {PlantingKeys[i] : i \in 1..Len(PlantingKeys)} |->
                    FmtPlanting(key, DictGet(d2, key, DEFAULT_PLANTING_OPTIONS(key)))]
    IN
    IF ~isinstance(p, {"datetime", "date", "dict"})
    THEN [entry |-> p, line |-> <<>>, err |-> "TypeError"]
    ELSE IF "PDATE" \notin Keys(d0)
    THEN [entry |-> p, line |-> <<>>, err |-> "KeyError"]
    ELSE IF ~isinstance(Get(d0, "PDATE"), {"datetime", "date"})
    THEN [entry |-> p, line |-> <<>>, err |-> "AttributeError"]
    ELSE IF hasE /\ ~isinstance(Get(d1, "EDATE"), {"datetime", "date"})
    THEN [entry |-> kept(d1), line |-> <<>>, err |-> "AssertionError: EDATE"]
    ELSE IF \E key \in DOMAIN cols : cols[key] = ValueError
    THEN [entry |-> kept(d2), line |-> <<>>, err |-> "ValueError: planting"]
    ELSE [entry |-> kept(d2), line |-> <<[p |-> Fmt2(n), cols |-> cols]>>, err |-> "ok"]

\* The loop from entry n on: self.planting and the section's lines when the
\* loop ends or raises
RECURSIVE PlantingLoop(_, _, _)
PlantingLoop(list, n, lines) ==
    IF n > Len(list) THEN [list |-> list, lines |-> lines, err |-> "ok"]
    ELSE LET pass == PlantingPass(n, list[n])
             list1 == [list EXCEPT ![n] = pass.entry]
         IN IF pass.err # "ok"
            THEN [list |-> list1, lines |-> lines, err |-> pass.err]
            ELSE PlantingLoop(list1, n + 1, lines \o pass.line)
PlantingBuild(list) == PlantingLoop(list, 1, <<>>)

(***************************************************************************)
(* _options_build                                                          *)
(***************************************************************************)
\* the keys of DEFAULT_SIMULATION_OPTIONS, in their order
SimulationKeys ==
    <<"WATER", "NITRO", "SYMBI", "PHOSP", "POTAS", "CO2",
      "LIGHT", "EVAPO", "INFIL", "PHOTO", "MESOM", "MESEV", "MESOL",
      "IRRIG", "IMDEP", "ITHRL", "ITHRU",
      "PLANT", "PFRST", "PLAST", "PH2OL", "PH2OU", "PH2OD", "PSTMX", "PSTMN">>
DEFAULT_SIMULATION_OPTIONS(key) ==
    CASE key \in {"WATER", "NITRO"} -> PyStr("Y")
      [] key \in {"SYMBI", "PHOSP", "POTAS", "IRRIG"} -> PyStr("N")
      [] key = "CO2" -> PyStr("D")
      [] key = "LIGHT" -> PyStr("E")
      [] key \in {"EVAPO", "MESEV", "PLANT"} -> PyStr("R")
      [] key = "INFIL" -> PyStr("S")
      [] key = "PHOTO" -> PyStr("C")
      [] key = "MESOM" -> PyStr("P")
      [] key = "MESOL" -> PyStr("2")
      [] key \in {"IMDEP", "PH2OD"} -> PyInt(30)
      [] key = "ITHRL" -> PyInt(50)
      [] key \in {"ITHRU", "PH2OU"} -> PyInt(100)
      [] key = "PFRST" -> PyStr("00001")
      [] key = "PLAST" -> PyStr("00365")
      [] key \in {"PH2OL", "PSTMX"} -> PyInt(40)
      [] key = "PSTMN" -> PyInt(10)

DefaultSimulationOptions ==
    Dict([i \in 1..Len(SimulationKeys) |->
             Item(SimulationKeys[i], DEFAULT_SIMULATION_OPTIONS(SimulationKeys[i]))])

\* options = [sim_controls.get(key, DEFAULT_SIMULATION_OPTIONS[key]) for key
\* in DEFAULT_SIMULATION_OPTIONS]
OptionsListDefaultsOnly(sim_controls) ==
    [i \in 1..Len(SimulationKeys) |-> DEFAULT_SIMULATION_OPTIONS(SimulationKeys[i])]
OptionsList(sim_controls) ==
    [i \in 1..Len(SimulationKeys) |->
        DictGet(sim_controls, SimulationKeys[i],
                DEFAULT_SIMULATION_OPTIONS(SimulationKeys[i]))]

\* The columns of the section that the template fills: {i} is options[i],
\* which is o[i + 1] here; the other columns are text of the template
OptionsColumns(o, sdate) ==
    [SDATE |-> LJust(sdate.s, 5),
     WATER |-> Str(o[1]), NITRO |-> Str(o[2]), SYMBI |-> Str(o[3]),
     PHOSP |-> Str(o[4]), POTAS |-> Str(o[5]), DISES |-> "N", CHEM |-> "N",
     TILL |-> "N", CO2 |-> Str(o[6]),
     WTHER |-> "M", INCON |-> "M", LIGHT |-> Str(o[7]), EVAPO |-> Str(o[8]),
     INFIL |-> Str(o[9]), PHOTO |-> Str(o[10]), HYDRO |-> "R",
     MESOM |-> Str(o[11]), MESEV |-> Str(o[12]), MESOL |-> Str(o[13]),
     PLANT |-> Str(o[18]), IRRIG |-> Str(o[14]), FERTI |-> "D", RESID |-> "N",
     HARVS |-> "M",
     PFRST |-> Str(o[19]), PLAST |-> Str(o[20]), PH2OL |-> FmtD(o[21], 5),
     PH2OU |-> FmtD(o[22], 5), PH2OD |-> FmtD(o[23], 5),
     PSTMX |-> FmtD(o[24], 5), PSTMN |-> FmtD(o[25], 5),
     IMDEP |-> FmtD(o[15], 5), ITHRL |-> FmtD(o[16], 5), ITHRU |-> FmtD(o[17], 5)]

\* the section, or the error that formatting it raises
OptionsBuild(sim_controls, sdate) ==
    LET cols == OptionsColumns(OptionsList(sim_controls), strftime_yj(sdate))
    IN IF \E c \in DOMAIN cols : cols[c] = ValueError
       THEN [section |-> <<>>, err |-> "ValueError: options"]
       ELSE [section |-> <<cols>>, err |-> "ok"]

(***************************************************************************)
(* run                                                                     *)
(***************************************************************************)
\* CONFILE = f'DSSATPRO.L{VERSION[1:]}'
CONFILE == "DSSATPRO.L48"

\* kwargs.get(key, default): an argument is <<>> when it is not passed and
\* <<value>> when it is
KwGet(kw, default) == IF kw = <<>> THEN default ELSE kw[1]
Kwargs(sd, sc) == [start_date |-> sd, sim_controls |-> sc]

\* "IB000000" and the soil's number, as run() and _field_build write it
SoilId(n) == "IB000000" \o Fmt02(n)
\* The soils run() appends to sol_str, each with the identifier that
\* replaces the first 11 characters of its first line: the inline profiles
\* when there is one, and the soil files otherwise.  Reading a soil file
\* that does not exist raises, and ends the loop.
RECURSIVE SoilLoop(_, _, _, _)
SoilLoop(paths, missing, n, done) ==
    IF n > Len(paths) THEN [sol |-> done, err |-> "ok"]
    ELSE IF paths[n] \in missing
    THEN [sol |-> done, err |-> "FileNotFoundError: soil"]
    ELSE SoilLoop(paths, missing, n + 1,
                  Append(done, [id |-> SoilId(n), from |-> "soil", text |-> paths[n]]))
SoilBuild(profiles, paths, missing) ==
    IF Len(profiles) > 0
    THEN [sol |-> [n \in 1..Len(profiles) |->
                      [id |-> SoilId(n), from |-> "soil_profile", text |-> profiles[n]]],
          err |-> "ok"]
    ELSE SoilLoop(paths, missing, 1, <<>>)

\* A file of the run directory is a pair: its name and, for a symbolic
\* link, the path it points to ("" for a regular file).  Writing a file
\* replaces the one of that name.
WriteNothing(files, name, target) == files
Write(files, name, target) ==
    {f \in files : f[1] # name} \cup {<<name, target>>}
\* os.path.exists(name) in the run directory: a link whose target does not
\* exist is reported as not existing
Exists(files, name, missing) ==
    \E f \in files : f[1] = name /\ f[2] \notin missing

\* The weather loop: a link SE<id><years>.WTH for each weather file.  A link
\* of that name that exists is removed first, a weather file that does not
\* exist fails the assertion, and os.symlink raises when a link of that name
\* is still there (a broken one, which os.path.exists does not see).  The
\* years a file's name stands for are not modelled: a file is missing when
\* one of the years it is looked up for is.
WeatherLink(n, path) ==
    "SE" \o WTH_IDS(n) \o SubSeq(path, Len(path) - 7, Len(path) - 4) \o ".WTH"
RECURSIVE WeatherLoop(_, _, _, _)
WeatherLoop(paths, missing, n, files) ==
    IF n > Len(paths) THEN [files |-> files, err |-> "ok"]
    ELSE LET link == WeatherLink(n, paths[n])
             files1 == IF Exists(files, link, missing)
                       THEN {f \in files : f[1] # link} ELSE files
         IN IF paths[n] \in missing
            THEN [files |-> files1, err |-> "AssertionError: weather"]
            ELSE IF \E f \in files1 : f[1] = link
            THEN [files |-> files1, err |-> "FileExistsError"]
            ELSE WeatherLoop(paths, missing, n + 1, Write(files1, link, paths[n]))

\* run(**kw) where the files of env.missing do not exist and the binary
\* writes its output files when env.outputs
run(kw, env) ==
    LET Ended(err) == [op |-> "run", args |-> <<kw>>, err |-> err]
        start_date1 == KwGet(kw.start_date, start_date)
        sim_controls == KwGet(kw.sim_controls, DefaultSimulationOptions)
        pb == PlantingBuild(planting)
        ob == OptionsBuild(sim_controls, start_date1)
        \* gsx_str after _header_build ... _field_build
        gsx4 == [header |-> TRUE,
                 treatments |-> TreatmentSection(treatments),
                 cultivars |-> CultivarSection(cultivar, crop_name),
                 fields |-> FieldSection(field, weather),
                 planting |-> <<>>, fertilizers |-> <<>>, options |-> <<>>]
        gsx5 == [gsx4 EXCEPT !.planting = pb.lines]
        gsx6 == [gsx5 EXCEPT !.fertilizers = FertilizerSection(nitrogen)]
        gsx7 == [gsx6 EXCEPT !.options = ob.section]
        sb == SoilBuild(soil_profile, soil, env.missing)
        staged1 == Write(staged, CONFILE, "")
        staged2 == Write(staged1, "SOIL.SOL", "")
        wb == WeatherLoop(weather, env.missing, 1, staged2)
        staged3 == Write(Write(wb.files, "EXPEFILE." \o CROP_CODES(crop_name) \o "X", ""),
                         "DSSBatch.v48", "")
    IN
    /\ UNCHANGED <<crop_name, weather, soil, soil_profile, field, nitrogen,
                   cultivar, treatments, calls, shared>>
    /\ IF ~(Len(treatments) > 0)
       THEN /\ result' = Ended("AssertionError: no treatments")
            /\ UNCHANGED <<run_path, staged, planting, start_date, buffers, overridden>>
       ELSE
       /\ start_date' = start_date1
       /\ overridden' = (overridden \/ kw.start_date # <<>>)
       /\ batch_str' = BatchSection(treatments, crop_name)
       /\ planting' = pb.list
       /\ IF pb.err # "ok"
          THEN /\ result' = Ended(pb.err)
               /\ gsx_str' = gsx5
               /\ sol_str' = <<>>
               /\ UNCHANGED <<run_path, staged>>
          ELSE IF ob.err # "ok"
          THEN /\ result' = Ended(ob.err)
               /\ gsx_str' = gsx6
               /\ sol_str' = <<>>
               /\ UNCHANGED <<run_path, staged>>
          ELSE
          /\ gsx_str' = gsx7
          /\ sol_str' = IF run_path THEN sb.sol ELSE <<>>
          /\ IF ~run_path
             THEN /\ result' = Ended("FileNotFoundError: RUN_PATH")
                  /\ UNCHANGED <<run_path, staged>>
             ELSE IF sb.err # "ok"
             THEN /\ result' = Ended(sb.err)
                  /\ staged' = staged1
                  /\ UNCHANGED run_path
             ELSE IF wb.err # "ok"
             THEN /\ result' = Ended(wb.err)
                  /\ staged' = wb.files
                  /\ UNCHANGED run_path
             ELSE IF ~env.outputs
             THEN /\ result' = Ended("FileNotFoundError: OVERVIEW.OUT")
                  /\ staged' = staged3
                  /\ UNCHANGED run_path
             ELSE /\ result' = Ended("ok")
                  /\ staged' = {}
                  /\ run_path' = FALSE

(***************************************************************************)
(* The calls the model makes                                               *)
(***************************************************************************)
MaxAdds == 2

W1 == "AAAA2001.WTH"
W2 == "BBBB2001.WTH"
S1 == "S1.SOL"
S2 == "S2.SOL"
P1 == "*IB00000001  profile one"
N1 == <<<<20, 50>>, <<40, 30>>>>
N2 == <<<<0, 80>>>>
D0 == PyDatetime(2019, 300)
D1 == PyDatetime(2020, 10)
D2 == PyDatetime(2020, 45)
\* {"PDATE": D1, "EDATE": D2} and {"EDATE": D2, "PDATE": D1}
PlantingPE == Dict(<<Item("PDATE", D1), Item("EDATE", D2)>>)
PlantingEP == Dict(<<Item("EDATE", D2), Item("PDATE", D1)>>)

\* a call with a soil file, a datetime and a schedule of two applications
BaseCall == Args(W1, N1, Scalar(D2), "IB0001", S1, None)
\* the base call and the calls that differ from it in one argument: the
\* last three plantings are a dict without PDATE, a str and a date
AllInputs ==
    {BaseCall}
    \cup {[BaseCall EXCEPT !.weather = W2]}
    \cup {[BaseCall EXCEPT !.nitrogen = N2]}
    \cup {[BaseCall EXCEPT !.cultivar = "IB0002"]}
    \cup {[BaseCall EXCEPT !.soil = S2]}
    \cup {[BaseCall EXCEPT !.soil = None]}
    \cup {[BaseCall EXCEPT !.soil = s, !.soil_profile = P1] : s \in {None, S1}}
    \cup {[BaseCall EXCEPT !.planting = pl] :
            pl \in {Scalar(D1), PlantingPE, PlantingEP,
                    Dict(<<Item("PPOP", PyInt(5))>>),
                    Scalar(PyStr("2020-02-14")), Scalar(PyDate(2020, 45))}}
\* the calls of the specification that also runs: the plantings, a second
\* cultivar and an inline soil profile
Inputs ==
    {BaseCall}
    \cup {[BaseCall EXCEPT !.cultivar = "IB0002"]}
    \cup {[BaseCall EXCEPT !.soil = None, !.soil_profile = P1]}
    \cup {[BaseCall EXCEPT !.planting = pl] :
            pl \in {Scalar(D1), PlantingPE, PlantingEP}}

RunKwargs == {Kwargs(sd, <<>>) : sd \in {<<>>, <<D0>>}}
\* what run() finds outside the registry: every file, no output files of
\* the binary, a missing soil file, a missing weather file
Envs == {[missing |-> {}, outputs |-> TRUE], [missing |-> {}, outputs |-> FALSE],
         [missing |-> {S1}, outputs |-> TRUE], [missing |-> {W1}, outputs |-> TRUE]}

\* The registry takes calls while it holds fewer than MaxAdds treatments
AddTreatment ==
    /\ Len(treatments) < MaxAdds
    /\ \E a \in Inputs : add_treatment(a)
Run == \E kw \in RunKwargs, env \in Envs : run(kw, env)
Clear == clear

Next == AddTreatment \/ Run \/ Clear
Spec == Init /\ [][Next]_vars

\* add_treatment and clear alone, with every call
AddAnyTreatment ==
    /\ Len(treatments) < MaxAdds
    /\ \E a \in AllInputs : add_treatment(a)
NextAdd == AddAnyTreatment \/ Clear
SpecAdd == Init /\ [][NextAdd]_vars

\* the registry up to its capacity: one call, with and without its soil
CapInputs == {BaseCall, [BaseCall EXCEPT !.soil = None]}
AddUpToCapacity == \E a \in CapInputs : add_treatment(a)
NextCap == AddUpToCapacity \/ Clear
SpecCap == Init /\ [][NextCap]_vars

\* run() with simulation controls, over the nitrogen schedules
N0 == <<>>
OptInputs == {[BaseCall EXCEPT !.nitrogen = n] : n \in {N0, N1, N2}}
SimControls ==
    {<<>>,
     <<Dict(<<Item("WATER", PyStr("N"))>>)>>,
     <<Dict(<<Item("FERTI", PyStr("N")), Item("SMODEL", PyStr("MZCER"))>>)>>,
     <<Dict(<<Item("PH2OL", PyInt(55)), Item("PLANT", PyStr("A")),
              Item("IRRIG", PyStr("A")), Item("IMDEP", PyInt(35)),
              Item("HARVS", PyStr("R"))>>)>>,
     <<Dict(<<Item("WATER", PyStr("N")), Item("ITHRL", PyStr("50"))>>)>>}
AddWithNitrogen ==
    /\ Len(treatments) < MaxAdds
    /\ \E a \in OptInputs : add_treatment(a)
RunWithControls ==
    \E sc \in SimControls, o \in BOOLEAN :
        run(Kwargs(<<>>, sc), [missing |-> {}, outputs |-> o])
NextOpt == AddWithNitrogen \/ RunWithControls \/ Clear
SpecOpt == Init /\ [][NextOpt]_vars

\* run() over a run directory that earlier runs have staged: two weather
\* files whose links get the same name, with a file that is missing or the
\* output files that are.  The last two calls pass an inline profile, and
\* the last one a planting that add_treatment refuses.
StageInputs ==
    {BaseCall, [BaseCall EXCEPT !.weather = W2],
     [BaseCall EXCEPT !.soil = None, !.soil_profile = P1],
     [BaseCall EXCEPT !.weather = W2, !.soil = None, !.soil_profile = P1,
                      !.planting = Scalar(PyDate(2020, 45))]}
StageEnvs == Envs \cup {[missing |-> {W2}, outputs |-> TRUE]}
AddWithWeather ==
    /\ Len(treatments) < MaxAdds
    /\ \E a \in StageInputs : add_treatment(a)
RunStaged == \E env \in StageEnvs : run(Kwargs(<<>>, <<>>), env)
NextStage == AddWithWeather \/ RunStaged \/ Clear
SpecStage == Init /\ [][NextStage]_vars

(***************************************************************************)
(* The workers of a parallel sweep.  What a worker's calls do to its       *)
(* registry is left out: a worker holds the number of its treatments, and  *)
(* its steps are the import of the module, the construction of its         *)
(* registry, add_treatment, and the parts of run() between which another   *)
(* worker can act: the staging of the input files, the external binary,    *)
(* and the reading of the output files with the removal of the directory.  *)
(***************************************************************************)
\* the names random.choices can give a run directory: two workers may draw
\* the same one
RunNames == {"dssatrunAAAAAAAA", "dssatrunAAAAAAAB"}
\* the files run() writes before it calls the binary, and those the binary
\* writes
InputFiles == {CONFILE, "SOIL.SOL", "SEAA2001.WTH", "EXPEFILE.MZX", "DSSBatch.v48"}
OutputFiles == {"OVERVIEW.OUT", "Summary.OUT", "PlantGro.OUT"}

\* the files of a directory, and those with one of the names
FilesOf(dir, names) == {f \in tmp_files : f[1] = dir /\ f[2] \in names}
\* worker w writes the files names in dir, replacing those that are there
WriteAll(dir, names, w) ==
    (tmp_files \ FilesOf(dir, names)) \cup {<<dir, n, w>> : n \in names}
Set(w, r) == workers' = [workers EXCEPT ![w] = r]

\* the import, for one file of DSSAT_STATIC: the link is removed if it
\* exists
ImportRemove(w) ==
    /\ workers[w].pc = "import"
    /\ \E f \in workers[w].todo :
        /\ home' = home \ {f}
        /\ Set(w, [workers[w] EXCEPT !.pc = "link", !.file = f])
    /\ UNCHANGED <<registry, tmp, tmp_files>>
\* and os.symlink creates it, or raises because it exists
ImportLink(w) ==
    /\ workers[w].pc = "link"
    /\ LET f == workers[w].file
           todo == workers[w].todo \ {f}
       IN IF f \in home
          THEN /\ Set(w, [workers[w] EXCEPT !.pc = "failed", !.err = "FileExistsError"])
               /\ UNCHANGED home
          ELSE /\ home' = home \cup {f}
               /\ Set(w, [workers[w] EXCEPT !.todo = todo, !.file = "",
                               !.pc = IF todo = {} THEN "imported" ELSE "import"])
    /\ UNCHANGED <<registry, tmp, tmp_files>>

\* GSRun(): the directory is made unless one of that name exists
Construct(w) ==
    /\ workers[w].pc = "imported"
    /\ \E name \in RunNames :
        /\ tmp' = tmp \cup {name}
        /\ Set(w, [workers[w] EXCEPT !.pc = "idle", !.RUN_PATH = name])
    /\ UNCHANGED <<registry, home, tmp_files>>

\* add_treatment touches no file
WorkerAdd(w) ==
    /\ workers[w].pc = "idle"
    /\ workers[w].treatments < MaxAdds
    /\ Set(w, [workers[w] EXCEPT !.treatments = @ + 1])
    /\ UNCHANGED <<registry, home, tmp, tmp_files>>

\* run(), up to the call of the binary: the input files are written
Stage(w) ==
    /\ workers[w].pc = "idle"
    /\ workers[w].treatments > 0
    /\ IF workers[w].RUN_PATH \notin tmp
       THEN /\ Set(w, [workers[w] EXCEPT !.err = "FileNotFoundError", !.read = {}])
            /\ UNCHANGED tmp_files
       ELSE /\ tmp_files' = WriteAll(workers[w].RUN_PATH, InputFiles, w)
            /\ Set(w, [workers[w] EXCEPT !.pc = "staged", !.err = "ok", !.read = {}])
    /\ UNCHANGED <<registry, home, tmp>>

\* subprocess.run(..., cwd=RUN_PATH): the binary reads the input files and
\* the files of DSSAT_HOME, and writes the output files if it finds them all
Execute(w) ==
    /\ workers[w].pc = "staged"
    /\ LET dir == workers[w].RUN_PATH
           inputs == FilesOf(dir, InputFiles)
       IN IF dir \notin tmp
          THEN /\ Set(w, [workers[w] EXCEPT !.pc = "idle", !.err = "FileNotFoundError"])
               /\ UNCHANGED tmp_files
          ELSE /\ Set(w, [workers[w] EXCEPT !.pc = "executed",
                                            !.read = {f[3] : f \in inputs}])
               /\ tmp_files' =
                    IF {f[2] : f \in inputs} = InputFiles /\ StaticFiles \subseteq home
                    THEN WriteAll(dir, OutputFiles, w) ELSE tmp_files
    /\ UNCHANGED <<registry, home, tmp>>

\* the end of run(): the output files are read and the directory is removed
Collect(w) ==
    /\ workers[w].pc = "executed"
    /\ LET dir == workers[w].RUN_PATH
           outputs == FilesOf(dir, OutputFiles)
       IN IF dir \notin tmp \/ {f[2] : f \in outputs} # OutputFiles
          THEN /\ Set(w, [workers[w] EXCEPT !.pc = "idle", !.err = "FileNotFoundError"])
               /\ UNCHANGED <<tmp, tmp_files>>
          ELSE /\ Set(w, [workers[w] EXCEPT !.pc = "idle", !.err = "ok",
                                            !.read = @ \cup {f[3] : f \in outputs}])
               /\ tmp' = tmp \ {dir}
               /\ tmp_files' = {f \in tmp_files : f[1] # dir}
    /\ UNCHANGED <<registry, home>>

NextWorkers ==
    \E w \in Workers :
        \/ ImportRemove(w) \/ ImportLink(w) \/ Construct(w) \/ WorkerAdd(w)
        \/ Stage(w) \/ Execute(w) \/ Collect(w)
SpecWorkers == Init /\ [][NextWorkers]_vars

(***************************************************************************)
(* What the claims speak of                                                *)
(***************************************************************************)
\* the last call was an add_treatment that appended a treatment
Added == result.op = "add_treatment" /\ result.err = "ok"
\* this step is a call of add_treatment, and it appended a treatment
AddStep == result'.op = "add_treatment"
RunStep == result'.op = "run"
ClearStep == result'.op = "clear"
\* the treatment an add_treatment step appended
NewTreatment == treatments'[Len(treatments')]

\* an argument that was passed, and holds something
Supplied(x) == x # None /\ x # ""

\* equal by value: the same type and, for a dict, the same set of key and
\* value pairs
ItemSet(d) == {<<d.items[i].k, d.items[i].v>> : i \in 1..Len(d.items)}
SameValue(x, y) == x.t = y.t /\ x.v = y.v /\ ItemSet(x) = ItemSet(y)

\* the 1-based place of the first entry of a table that equals x
FirstOccurrence(table, x) ==
    CHOOSE i \in 1..Len(table) : table[i] = x /\ \A j \in 1..(i - 1) : table[j] # x
FirstSameValue(table, x) ==
    CHOOSE i \in 1..Len(table) :
        SameValue(table[i], x) /\ \A j \in 1..(i - 1) : ~SameValue(table[j], x)

\* Passing x, which table holds, left the table's length as it was, and the
\* treatment appended (if one was) holds index, the place of x in the table
Reused(table, tableAfter, first, index) ==
    /\ Len(tableAfter) = Len(table)
    /\ result'.err = "ok" => index = first

\* C1: in every add_treatment step and for every dimension, a value equal to
\* one the dimension's table holds leaves the table's length unchanged and
\* gets, in the new treatment, the index of its first occurrence; plantings
\* are equal by value, whatever the order of a dict's keys.
C1_Deduplication ==
    [][AddStep =>
        LET a == result'.args[1]
            t == NewTreatment
            f == field'[t[2]]
            pair == <<FirstOccurrence(weather', a.weather),
                      IF Supplied(a.soil_profile)
                      THEN FirstOccurrence(soil_profile', a.soil_profile)
                      ELSE FirstOccurrence(soil', a.soil)>>
        IN
        /\ (\E i \in 1..Len(weather) : weather[i] = a.weather)
            => Reused(weather, weather', FirstOccurrence(weather, a.weather), f[1])
        /\ (~Supplied(a.soil_profile) /\ \E i \in 1..Len(soil) : soil[i] = a.soil)
            => Reused(soil, soil', FirstOccurrence(soil, a.soil), f[2])
        /\ (Supplied(a.soil_profile)
              /\ \E i \in 1..Len(soil_profile) : soil_profile[i] = a.soil_profile)
            => Reused(soil_profile, soil_profile',
                      FirstOccurrence(soil_profile, a.soil_profile), f[2])
        /\ (result'.err = "ok" /\ \E i \in 1..Len(field) : field[i] = pair)
            => Reused(field, field', FirstOccurrence(field, pair), t[2])
        /\ (\E i \in 1..Len(nitrogen) : nitrogen[i] = a.nitrogen)
            => Reused(nitrogen, nitrogen', FirstOccurrence(nitrogen, a.nitrogen), t[4])
        /\ (\E i \in 1..Len(cultivar) : cultivar[i] = a.cultivar)
            => Reused(cultivar, cultivar', FirstOccurrence(cultivar, a.cultivar), t[1])
        /\ (\E i \in 1..Len(planting) : SameValue(planting[i], a.planting))
            => Reused(planting, planting', FirstSameValue(planting, a.planting), t[3])
    ]_vars

\* C1's case: the planting of the last treatment is a dict that an earlier
\* treatment passed with its keys in another order, and both hold the same
\* planting index; the weather, soil, nitrogen and cultivar are reused too
C1_Witness ==
    /\ Added
    /\ \E i \in 1..(Len(calls) - 1) :
        LET a == calls[i]
            b == calls[Len(calls)]
        IN /\ a.planting.t = "dict"
           /\ a.planting # b.planting
           /\ SameValue(a.planting, b.planting)
           /\ treatments[i] = treatments[Len(calls)]
           /\ Len(planting) = 1

\* the last call was a run() that got past its first assertion, and so
\* built the treatments section and the batch manifest
SectionsBuilt == result.op = "run" /\ result.err # "AssertionError: no treatments"
\* the number that a two-character column holds
NumberIn(s) == CHOOSE n \in 0..100 : s = ToString(n) \/ s = " " \o ToString(n)
\* the soil a call asked for: the inline profile when one was passed
SoilSource(a) == IF Supplied(a.soil_profile) THEN <<"soil_profile", a.soil_profile>>
                 ELSE <<"soil", a.soil>>

\* C2: after run(), the treatments section and the batch manifest number
\* the treatments 1..N, and line k holds the indices of the cultivar, field,
\* planting and nitrogen schedule that the k-th successful add_treatment
\* call passed.
C2_TreatmentNumbers ==
    SectionsBuilt =>
        /\ Len(calls) <= 99
        /\ Len(gsx_str.treatments) = Len(calls)
        /\ Len(batch_str) = Len(calls)
        /\ \A k \in 1..Len(calls) :
            LET line == gsx_str.treatments[k]
                f == field[NumberIn(line.fl)]
            IN /\ NumberIn(line.n) = k
               /\ NumberIn(batch_str[k].trtno) = k
               /\ cultivar[NumberIn(line.cu)] = calls[k].cultivar
               /\ nitrogen[NumberIn(line.mf)] = calls[k].nitrogen
               /\ weather[f[1]] = calls[k].weather
               /\ SoilSource(calls[k]) \in {<<"soil_profile", soil_profile[i]>> :
                                               i \in {f[2]} \cap DOMAIN soil_profile}
                                           \cup {<<"soil", soil[i]>> :
                                               i \in {f[2]} \cap DOMAIN soil}
               /\ NumberIn(line.mp) = treatments[k][3]

\* C2's case: run() has numbered two treatments that differ
C2_Witness ==
    /\ SectionsBuilt
    /\ Len(calls) = 2
    /\ calls[1].cultivar # calls[2].cultivar
    /\ gsx_str.treatments[2].n = " 2"
    /\ gsx_str.treatments[1].cu # gsx_str.treatments[2].cu

\* C3: the registry never holds more than 99 treatments, and an
\* add_treatment call on a registry that holds 99 fails with the capacity
\* error and leaves the treatment list as it was.
C3_Capacity ==
    /\ [](Len(treatments) <= 99)
    /\ [][(AddStep /\ Len(treatments) = 99) =>
            /\ result'.err = "AssertionError: capacity"
            /\ treatments' = treatments]_vars

\* C3's case: a call was refused by a registry that holds 99 treatments
C3_Witness ==
    /\ Len(treatments) = 99
    /\ result.op = "add_treatment"
    /\ result.err = "AssertionError: capacity"

\* C4, as claimed: a treatment is appended only by a call that supplies
\* exactly one of soil and soil_profile, and a call that supplies neither
\* fails with the configuration error.
C4_ExactlyOneSoil ==
    [][AddStep =>
        LET a == result'.args[1]
        IN /\ Len(treatments') > Len(treatments)
                => (a.soil # None) # Supplied(a.soil_profile)
           /\ (a.soil = None /\ ~Supplied(a.soil_profile))
                => result'.err = "AssertionError: soil"
    ]_vars

\* C4, amended: a treatment is appended only by a call that supplies soil
\* or soil_profile; a call that supplies both uses the profile and leaves
\* the soil files alone; a call that supplies neither to a registry of
\* fewer than 99 treatments fails with the configuration error, and appends
\* nothing.
C4_AtLeastOneSoil ==
    [][AddStep =>
        LET a == result'.args[1]
        IN /\ Len(treatments') > Len(treatments)
                => (a.soil # None \/ Supplied(a.soil_profile))
           /\ (a.soil # None /\ Supplied(a.soil_profile) /\ Len(treatments) < 99)
                => /\ soil' = soil
                   /\ \E i \in 1..Len(soil_profile') : soil_profile'[i] = a.soil_profile
           /\ (a.soil = None /\ ~Supplied(a.soil_profile) /\ Len(treatments) < 99)
                => /\ result'.err = "AssertionError: soil"
                   /\ treatments' = treatments
    ]_vars

\* C4's case: a call that passed a soil file and an inline profile appended
\* a treatment, and the soil file is in no table
C4_Witness ==
    /\ Added
    /\ result.args[1].soil # None
    /\ Supplied(result.args[1].soil_profile)
    /\ soil = <<>>
    /\ Len(treatments) = 1

\* C5: clear() leaves the registry as construction with the same crop
\* does: the tables, the treatment list and the buffers empty, no start
\* date, and a run directory for the next run().
C5_ClearIsReconstruction ==
    [][ClearStep =>
        /\ crop_name' = crop_name
        /\ \A i \in 1..Len(tables') : tables'[i] = <<>>
        /\ treatments' = <<>>
        /\ start_date' = NoStartDate
        /\ sol_str' = <<>> /\ gsx_str' = NoSections /\ batch_str' = <<>>
        /\ run_path' = TRUE
    ]_vars

\* C6: run() only reads the registry: the dimension tables and the
\* treatment list hold after it what they held before it.
C6_RunReadsOnly ==
    [][RunStep => tables' = tables /\ treatments' = treatments]_vars

\* the planting date of a call: the PDATE entry of a dict
DateOf(p) == IF p.t = "dict"
             THEN LET i == CHOOSE i \in 1..Len(p.items) : p.items[i].k = "PDATE"
                  IN p.items[i].v
             ELSE p.v
\* the earliest planting date of the calls
Earliest(cs) ==
    CHOOSE d \in {DateOf(cs[k].planting) : k \in 1..Len(cs)} :
        \A k \in 1..Len(cs) : d.n <= DateOf(cs[k].planting).n

\* C7: while no run() has overridden it, start_date is the earliest planting
\* date of the treatments added since construction or clear(), and a run()
\* with start_date on a registry that holds treatments sets it to that date.
C7_StartDate ==
    /\ []((calls # <<>> /\ ~overridden) => start_date = Earliest(calls))
    /\ [][(RunStep /\ treatments # <<>> /\ result'.args[1].start_date # <<>>)
            => start_date' = result'.args[1].start_date[1]]_vars

\* C7's case: the earliest date comes from the PDATE of a dict that was
\* added after a later datetime
C7_Witness ==
    /\ Added
    /\ ~overridden
    /\ Len(calls) = 2
    /\ calls[1].planting.t = "datetime"
    /\ calls[2].planting.t = "dict"
    /\ DateOf(calls[2].planting).n < calls[1].planting.v.n
    /\ start_date = DateOf(calls[2].planting)

\* C8: two treatments hold the same field index exactly when they were
\* added with the same weather and the same soil source, file or inline
\* profile.
C8_FieldPerWeatherAndSoil ==
    \A i, j \in 1..Len(calls) :
        treatments[i][2] = treatments[j][2]
            <=> /\ calls[i].weather = calls[j].weather
                /\ SoilSource(calls[i]) = SoilSource(calls[j])

\* the simulation controls that the caller may set, and those whose
\* column is a number, five characters wide
Recognized ==
    {"WATER", "NITRO", "SYMBI", "PHOSP", "POTAS", "CO2", "LIGHT", "EVAPO",
     "INFIL", "PHOTO", "MESOM", "MESEV", "MESOL", "IRRIG", "IMDEP", "ITHRL",
     "ITHRU", "PLANT", "PFRST", "PLAST", "PH2OL", "PH2OU", "PH2OD", "PSTMX",
     "PSTMN"}
NumberColumns == {"IMDEP", "ITHRL", "ITHRU", "PH2OL", "PH2OU", "PH2OD", "PSTMX", "PSTMN"}
\* the text of value v in the column of key
ColumnText(key, v) ==
    LET txt == IF v.t = "str" THEN v.s ELSE ToString(v.n)
    IN IF key \in NumberColumns /\ Len(txt) < 5
       THEN SubSeq("     ", 1, 5 - Len(txt)) \o txt ELSE txt
\* the columns that the section's template fixes
FixedColumns ==
    [DISES |-> "N", CHEM |-> "N", TILL |-> "N", WTHER |-> "M", INCON |-> "M",
     HYDRO |-> "R", FERTI |-> "D", RESID |-> "N", HARVS |-> "M"]
\* the overrides the last run() was given: none when sim_controls was not
\* passed
Overrides == IF result.args[1].sim_controls = <<>> THEN Dict(<<>>)
             ELSE result.args[1].sim_controls[1]
OverrideOf(key) ==
    LET i == CHOOSE i \in 1..Len(Overrides.items) : Overrides.items[i].k = key
    IN Overrides.items[i].v

\* C9: in the simulation-controls section that run() emits, each recognized
\* control holds the override's value when sim_controls has its key and the
\* default otherwise, and the other columns hold the template's text.
C9_SimulationControls ==
    (result.op = "run" /\ gsx_str.options # <<>>) =>
        LET section == gsx_str.options[1]
        IN /\ \A key \in Recognized :
                section[key] =
                    ColumnText(key,
                        IF \E i \in 1..Len(Overrides.items) : Overrides.items[i].k = key
                        THEN OverrideOf(key) ELSE DEFAULT_SIMULATION_OPTIONS(key))
           /\ \A key \in DOMAIN FixedColumns : section[key] = FixedColumns[key]

\* C9's case: run(sim_controls={"WATER": "N"}) emitted WATER as N and the
\* other controls as their defaults
C9_Witness ==
    /\ result.op = "run"
    /\ gsx_str.options # <<>>
    /\ Overrides = Dict(<<Item("WATER", PyStr("N"))>>)
    /\ gsx_str.options[1].WATER = "N"
    /\ gsx_str.options[1].NITRO = "Y"
    /\ gsx_str.options[1].PH2OL = "   40"

\* the last call was a run() that got past _planting_build, and so built
\* the fertilizer section
FertilizersBuilt ==
    /\ result.op = "run"
    /\ result.err \notin {"AssertionError: no treatments", "TypeError", "KeyError",
                          "AttributeError", "AssertionError: EDATE",
                          "ValueError: planting"}
\* the number of applications of the schedules before schedule k
RECURSIVE LinesBefore(_)
LinesBefore(k) == IF k <= 1 THEN 0 ELSE LinesBefore(k - 1) + Len(nitrogen[k - 1])

\* C10: the fertilizer section holds the applications of the first
\* schedule, then those of the second, and so on: one line for each, in the
\* schedule's order, with the schedule's index, the application's offset
\* and its amount to one decimal place.
C10_FertilizerLines ==
    FertilizersBuilt =>
        /\ Len(gsx_str.fertilizers) = LinesBefore(Len(nitrogen) + 1)
        /\ \A k \in 1..Len(nitrogen) : \A j \in 1..Len(nitrogen[k]) :
            LET line == gsx_str.fertilizers[LinesBefore(k) + j]
                dap == ToString(nitrogen[k][j][1])
                rate == ToString(nitrogen[k][j][2]) \o ".0"
            IN /\ NumberIn(line.f) = k
               /\ Len(line.fdate) = 5
               /\ SubSeq(line.fdate, 1, Len(dap)) = dap
               /\ Len(line.famn) = 5
               /\ SubSeq(line.famn, 6 - Len(rate), 5) = rate

\* C10's case: the schedule [(20, 50.0), (40, 30.0)] is the second of two,
\* and its two lines follow the line of the first
C10_Witness ==
    /\ FertilizersBuilt
    /\ nitrogen = <<N2, N1>>
    /\ Len(gsx_str.fertilizers) = 3
    /\ gsx_str.fertilizers[2] = [f |-> " 2", fdate |-> "20   ", famn |-> " 50.0"]
    /\ gsx_str.fertilizers[3] = [f |-> " 2", fdate |-> "40   ", famn |-> " 30.0"]

\* the names of the files in the run directory
Names(files) == {f[1] : f \in files}
\* the files a run() has written when it ends with err: the control file,
\* then SOIL.SOL, then the experiment and the batch file
StagedBy(err) ==
    IF err \in {"AssertionError: weather", "FileExistsError"}
    THEN {CONFILE, "SOIL.SOL"}
    ELSE IF err = "FileNotFoundError: OVERVIEW.OUT"
    THEN {CONFILE, "SOIL.SOL", "DSSBatch.v48", "EXPEFILE." \o CROP_CODES(crop_name) \o "X"}
    ELSE IF err = "FileNotFoundError: soil" THEN {CONFILE}
    ELSE {}

SoilWritten ==
    /\ result.op = "run"
    /\ result.err \in {"ok", "AssertionError: weather", "FileExistsError",
                       "FileNotFoundError: OVERVIEW.OUT"}

\* C13: after run() has written SOIL.SOL, the soil identifier in the field
\* line of every treatment is the identifier of a profile in SOIL.SOL, and
\* that profile is the soil file or the inline profile the treatment was
\* added with.
C13_SoilReferences ==
    SoilWritten =>
        \A k \in 1..Len(calls) :
            LET id == gsx_str.fields[treatments[k][2]].id_soil
            IN \E i \in 1..Len(sol_str) :
                /\ sol_str[i].id = id
                /\ <<sol_str[i].from, sol_str[i].text>> = SoilSource(calls[k])

\* C14: a call of add_treatment that raises leaves the tables, the
\* treatments and start_date as they were.
C14_AllOrNothing ==
    [][(AddStep /\ result'.err # "ok")
            => UNCHANGED <<tables, treatments, start_date>>]_vars

\* C15: every treatment holds indices into the cultivar, field, planting
\* and nitrogen tables, and every field a weather index into the weather
\* table and a soil index into a soil table: the table of inline profiles
\* for the field of a treatment added with one, the table of soil files
\* for the field of a treatment added with a soil file.
C15_IndicesInRange ==
    /\ \A k \in 1..Len(treatments) :
        /\ treatments[k][1] \in 1..Len(cultivar)
        /\ treatments[k][2] \in 1..Len(field)
        /\ treatments[k][3] \in 1..Len(planting)
        /\ treatments[k][4] \in 1..Len(nitrogen)
        /\ field[treatments[k][2]][2] \in
              1..Len(IF Supplied(calls[k].soil_profile) THEN soil_profile ELSE soil)
    /\ \A n \in 1..Len(field) :
        /\ field[n][1] \in 1..Len(weather)
        /\ field[n][2] \in 1..Len(soil) \/ field[n][2] \in 1..Len(soil_profile)

\* C15's case: after run(), the second treatment holds the second field,
\* which holds the second weather file and the first soil
C15_Witness ==
    /\ result.op = "run"
    /\ Len(treatments) = 2
    /\ treatments[2][2] = 2
    /\ field[2] = <<2, 1>>
    /\ Len(weather) = 2

\* a worker whose registry has been constructed, and the worker that takes
\* this step
Alive(w) == workers[w].pc \in {"idle", "staged", "executed"}
Actor(w) == workers'[w] # workers[w]

\* C11: two registries that are alive have different run directories; no
\* worker's step removes or replaces a file that another worker wrote, or
\* reads one; and no step changes DSSAT_HOME while another worker's registry
\* is alive.
C11_Isolation ==
    /\ [](\A v, w \in Workers :
            (v # w /\ Alive(v) /\ Alive(w))
                => workers[v].RUN_PATH # workers[w].RUN_PATH)
    /\ [][\A w \in Workers : Actor(w) =>
            /\ \A f \in tmp_files : f[3] # w => f \in tmp_files'
            /\ workers'[w].read \subseteq {w}
            /\ home' # home => \A v \in Workers \ {w} : ~Alive(v)]_vars

====
